---- MODULE Spec2Model ----
(***************************************************************************)
(* A model of SCMWriter/transform_text_to_csv.py: the pseudonym sequencer, *)
(* the numeric-literal extractor with time-pattern exclusion, the mapping  *)
(* builder, the three-phase text anonymizer and the batch loop of main().  *)
(*                                                                         *)
(* A Python str is modelled as a sequence of one-character strings, so     *)
(* that offsets, substrings and regular-expression matches are computed    *)
(* and not assumed.  A dict is modelled as a sequence of [k, v] records in *)
(* insertion order (Python dicts keep insertion order; assigning to a key  *)
(* that is present keeps its position).                                    *)
(***************************************************************************)
EXTENDS Integers, Sequences, FiniteSets, TLC

VARIABLES
    mode,               \* which entry point this run exercises
    pc,                 \* position inside that entry point
    index,              \* generate_pseudonym: the next index to label
    labels,             \* generate_pseudonym: labels[i+1] is the label of index i
    text,               \* the text argument (original_text of one file)
    numbers,            \* extract_all_numbers: the returned list
    targets,            \* the targets argument
    case_insensitive,   \* the case mode
    anonymize_numbers,  \* the numeric phase switch
    mapping,            \* the mapping argument / per-file mapping
    occurrences,        \* per-file occurrence counts
    sorted_keys,        \* anonymize_text: keys in substitution order
    time_matches,       \* anonymize_text: the recorded time strings
    done_keys,          \* anonymize_text: keys substituted so far, in order
    prev,               \* anonymize_text: working text before the last step
    result,             \* anonymize_text: the working text / returned text
    txt_files,          \* main: the texts of the files of the batch
    file_idx,           \* main: number of files the loop has consumed
    global_mapping,     \* main: accumulated mapping
    global_occurrences, \* main: accumulated occurrence counts
    file_log,           \* main: per consumed file, what happened to it
    csv_rows            \* main: the rows handed to the CSV writer

vars == <<mode, pc, index, labels, text, numbers, targets, case_insensitive,
          anonymize_numbers, mapping, occurrences, sorted_keys, time_matches,
          done_keys, prev, result, txt_files, file_idx, global_mapping,
          global_occurrences, file_log, csv_rows>>

(***************************************************************************)
(* Characters                                                              *)
(***************************************************************************)
UpperAZ == <<"A","B","C","D","E","F","G","H","I","J","K","L","M",
             "N","O","P","Q","R","S","T","U","V","W","X","Y","Z">>

LowerAZ == <<"a","b","c","d","e","f","g","h","i","j","k","l","m",
             "n","o","p","q","r","s","t","u","v","w","x","y","z">>

DigitChars == <<"0","1","2","3","4","5","6","7","8","9">>

Range(s) == {s[i] : i \in 1..Len(s)}

UpperSet == Range(UpperAZ)

LowerSet == Range(LowerAZ)

DigitSet == Range(DigitChars)

\* \d restricted to ASCII digits
IsDigit(c) == c \in DigitSet

\* the class [A-Za-z0-9_] of the look-behind and look-ahead
IsWordChar(c) == c \in UpperSet \cup LowerSet \cup DigitSet \cup {"_"}

\* chr(65 + k), 0 <= k < 26
chr65(k) == UpperAZ[k + 1]

\* str.lower() of one character (and the folding of re.IGNORECASE)
LowerChar(c) ==
    IF c \in UpperSet
    THEN LowerAZ[CHOOSE i \in 1..26 : UpperAZ[i] = c]
    ELSE c

lower(s) == [i \in 1..Len(s) |-> LowerChar(s[i])]

\* code-point order of the characters the model uses (ord)
CodeOrder == <<" ", ",", ".">> \o DigitChars \o <<":">> \o UpperAZ
             \o <<"_">> \o LowerAZ \o <<"§">>

ord(c) == CHOOSE i \in 1..Len(CodeOrder) : CodeOrder[i] = c

\* s < t for Python strings (lexicographic by code point)
RECURSIVE StrLess(_, _)
StrLess(s, t) ==
    IF t = <<>> THEN FALSE
    ELSE IF s = <<>> THEN TRUE
    ELSE IF s[1] # t[1] THEN ord(s[1]) < ord(t[1])
    ELSE StrLess(Tail(s), Tail(t))

\* str(n) for n >= 0
RECURSIVE str(_)
str(n) ==
    IF n < 10 THEN <<DigitChars[n + 1]>>
    ELSE Append(str(n \div 10), DigitChars[(n % 10) + 1])

\* F applied to the value of x: Python evaluates an argument once, before the call
Call(x, F(_)) == CHOOSE r \in {F(w) : w \in {x}} : TRUE

\* s[a:b] with 0-based offsets, 0 <= a <= b <= len(s)
Slice(s, a, b) == SubSeq(s, a + 1, b)

(***************************************************************************)
(* generate_pseudonym                                                      *)
(***************************************************************************)
\* the loop without the decrement of line 104: ordinary base 26
RECURSIVE AlphaLoop_no_decrement(_, _)
AlphaLoop_no_decrement(idx, res) ==
    LET res1 == <<chr65(idx % 26)>> \o res
        idx1 == idx \div 26
    IN  IF idx1 = 0 THEN res1 ELSE AlphaLoop_no_decrement(idx1, res1)

\* the while-loop of lines 99-104, entered with (index, result)
RECURSIVE AlphaLoop(_, _)
AlphaLoop(idx, res) ==
    LET res1 == <<chr65(idx % 26)>> \o res
        idx1 == idx \div 26
    IN  IF idx1 = 0 THEN res1 ELSE AlphaLoop(idx1 - 1, res1)

generate_pseudonym(idx, prefix) ==
    IF prefix # <<>> THEN prefix \o str(idx + 1)
    ELSE AlphaLoop(idx, <<>>)

NUM_ == <<"N", "U", "M", "_">>

(***************************************************************************)
(* Literal matching: re.compile(re.escape(x)[, re.IGNORECASE]) and         *)
(* str.replace.  Offsets are 0-based as in Python.                         *)
(***************************************************************************)
\* the literal pat matches s at offset i
MatchAt(s, i, pat, ci) ==
    /\ i + Len(pat) <= Len(s)
    /\ \A j \in 1..Len(pat) :
          IF ci THEN LowerChar(s[i + j]) = LowerChar(pat[j])
          ELSE s[i + j] = pat[j]

\* len(pattern.findall(s)): leftmost non-overlapping matches from offset i
RECURSIVE CountFrom(_, _, _, _)
CountFrom(s, i, pat, ci) ==
    IF i + Len(pat) > Len(s) THEN 0
    ELSE IF MatchAt(s, i, pat, ci)
         THEN 1 + CountFrom(s, i + Len(pat), pat, ci)
         ELSE CountFrom(s, i + 1, pat, ci)

findall_count(s, pat, ci) == CountFrom(s, 0, pat, ci)

\* pattern.sub(rep, s) / s.replace(pat, rep) for a non-empty literal pat:
\* leftmost non-overlapping matches, the replacement is not rescanned
RECURSIVE ReplaceFrom(_, _, _, _, _)
ReplaceFrom(s, i, pat, rep, ci) ==
    IF i >= Len(s) THEN <<>>
    ELSE IF MatchAt(s, i, pat, ci)
         THEN rep \o ReplaceFrom(s, i + Len(pat), pat, rep, ci)
         ELSE <<s[i + 1]>> \o ReplaceFrom(s, i + 1, pat, rep, ci)

replace(s, pat, rep, ci) == ReplaceFrom(s, 0, pat, rep, ci)

(***************************************************************************)
(* time_pattern = \d{1,2}:\d{2}                                            *)
(***************************************************************************)
DigitAt(s, i) == i < Len(s) /\ IsDigit(s[i + 1])

CharAt(s, i, c) == i < Len(s) /\ s[i + 1] = c

\* end offset of the match of \d{1,2}:\d{2} that starts at offset i, or -1;
\* the greedy \d{1,2} tries two digits first, then one
time_match_end(s, i) ==
    IF /\ DigitAt(s, i) /\ DigitAt(s, i + 1) /\ CharAt(s, i + 2, ":")
       /\ DigitAt(s, i + 3) /\ DigitAt(s, i + 4)
    THEN i + 5
    ELSE IF /\ DigitAt(s, i) /\ CharAt(s, i + 1, ":")
            /\ DigitAt(s, i + 2) /\ DigitAt(s, i + 3)
    THEN i + 4
    ELSE -1

\* time_pattern.finditer(s) from offset i: the [start, end) pairs in order
RECURSIVE time_finditer_from(_, _)
time_finditer_from(s, i) ==
    IF i >= Len(s) THEN <<>>
    ELSE LET e == time_match_end(s, i)
         IN  IF e >= 0 THEN <<<<i, e>>>> \o time_finditer_from(s, e)
             ELSE time_finditer_from(s, i + 1)

time_finditer(s) == time_finditer_from(s, 0)

\* the set time_spans of lines 125-129
time_span_offsets(s) ==
    Call(time_finditer(s), LAMBDA ms : UNION {ms[k][1]..(ms[k][2] - 1) : k \in 1..Len(ms)})

(***************************************************************************)
(* number_pattern =                                                        *)
(*  (?<![A-Za-z0-9_])(?:\d{1,3}(?:,\d{3})*|\d+)(?:\.\d+)?(?![A-Za-z0-9_])  *)
(* matched as the backtracking engine does: alternatives and repetition    *)
(* counts are tried in priority order and the first that lets the          *)
(* look-ahead succeed is the match.                                        *)
(***************************************************************************)
\* number of consecutive digits from offset i
RECURSIVE DigitRun(_, _)
DigitRun(s, i) == IF DigitAt(s, i) THEN 1 + DigitRun(s, i + 1) ELSE 0

\* (?![A-Za-z0-9_]) at offset p
LookAheadOK(s, p) == p >= Len(s) \/ ~IsWordChar(s[p + 1])

\* (?<![A-Za-z0-9_]) at offset i
LookBehindOK(s, i) == i = 0 \/ ~IsWordChar(s[i])

\* number of ",ddd" groups (?:,\d{3})* can take greedily from offset p
RECURSIVE CommaGroups(_, _)
CommaGroups(s, p) ==
    IF CharAt(s, p, ",") /\ DigitAt(s, p + 1) /\ DigitAt(s, p + 2) /\ DigitAt(s, p + 3)
    THEN 1 + CommaGroups(s, p + 4)
    ELSE 0

\* (?:\.\d+)?(?![A-Za-z0-9_]) from offset p: the end offset, or -1.
\* The fraction is tried first, longest digit run first, then the empty option.
frac_tail(s, p) ==
    LET r  == IF CharAt(s, p, ".") THEN DigitRun(s, p + 1) ELSE 0
        ok == {f \in 1..r : LookAheadOK(s, p + 1 + f)}
    IN  IF ok # {} THEN p + 1 + (CHOOSE f \in ok : \A g \in ok : g <= f)
        ELSE IF LookAheadOK(s, p) THEN p
        ELSE -1

\* offsets after the integer part, in the order the engine tries them:
\* \d{1,3} with 3, 2, 1 digits, each with the most comma groups first;
\* then \d+ with the longest run first
RECURSIVE grouped_cands(_, _, _)
grouped_cands(s, i, d) ==
    IF d = 0 THEN <<>>
    ELSE LET p == i + d
             G == CommaGroups(s, p)
         IN  [k \in 1..(G + 1) |-> p + 4 * (G + 1 - k)] \o grouped_cands(s, i, d - 1)

int_part_cands(s, i) ==
    LET run == DigitRun(s, i)
        d0  == IF run < 3 THEN run ELSE 3
    IN  grouped_cands(s, i, d0) \o [k \in 1..run |-> i + (run + 1 - k)]

\* end offset of the number match that starts at offset i, or -1
number_match_end(s, i) ==
    IF ~LookBehindOK(s, i) THEN -1
    ELSE LET cs   == int_part_cands(s, i)
             good == {k \in 1..Len(cs) : frac_tail(s, cs[k]) >= 0}
         IN  IF good = {} THEN -1
             ELSE frac_tail(s, cs[CHOOSE k \in good : \A j \in good : k <= j])

\* number_pattern.finditer(s) from offset i
RECURSIVE number_finditer_from(_, _)
number_finditer_from(s, i) ==
    IF i >= Len(s) THEN <<>>
    ELSE LET e == number_match_end(s, i)
         IN  IF e >= 0 THEN <<<<i, e>>>> \o number_finditer_from(s, e)
             ELSE number_finditer_from(s, i + 1)

number_finditer(s) == number_finditer_from(s, 0)

(***************************************************************************)
(* extract_all_numbers                                                     *)
(***************************************************************************)
\* the exclusion test looking at match.start() alone
extract_all_numbers_start_only(s) ==
    Call(time_span_offsets(s), LAMBDA time_spans :
        LET NotInTime(m) == m[1] \notin time_spans
        IN  Call(SelectSeq(number_finditer(s), NotInTime), LAMBDA kept :
                [k \in 1..Len(kept) |->
                    <<Slice(s, kept[k][1], kept[k][2]), kept[k][1], kept[k][2]>>]))

extract_all_numbers(s) ==
    Call(time_span_offsets(s), LAMBDA time_spans :
        LET NotInTime(m) == (m[1]..(m[2] - 1)) \cap time_spans = {}
        IN  Call(SelectSeq(number_finditer(s), NotInTime), LAMBDA kept :
                [k \in 1..Len(kept) |->
                    <<Slice(s, kept[k][1], kept[k][2]), kept[k][1], kept[k][2]>>]))

(***************************************************************************)
(* dict helpers                                                            *)
(***************************************************************************)
Keys(m) == [i \in 1..Len(m) |-> m[i].k]

Has(m, key) == \E i \in 1..Len(m) : m[i].k = key

Get(m, key) == m[CHOOSE i \in 1..Len(m) : m[i].k = key].v

\* m[key] = val
Put(m, key, val) ==
    IF Has(m, key)
    THEN [i \in 1..Len(m) |-> IF m[i].k = key THEN [k |-> key, v |-> val] ELSE m[i]]
    ELSE Append(m, [k |-> key, v |-> val])

(***************************************************************************)
(* create_anonymization_mapping                                            *)
(***************************************************************************)
\* one iteration of the loop of lines 175-192 on a state [m, occ, idx]
keyword_step(st, target, txt, ci) ==
    IF Has(st.m, target) THEN st
    ELSE LET key   == IF ci THEN lower(target) ELSE target
             count == findall_count(txt, target, ci)
         IN  IF count > 0
             THEN [m   |-> Put(st.m, key, generate_pseudonym(st.idx, <<>>)),
                   occ |-> Put(st.occ, key, count),
                   idx |-> st.idx + 1]
             ELSE st

RECURSIVE keyword_loop(_, _, _, _, _)
keyword_loop(st, tgts, i, txt, ci) ==
    IF i > Len(tgts) THEN st
    ELSE Call(keyword_step(st, tgts[i], txt, ci),
              LAMBDA st1 : keyword_loop(st1, tgts, i + 1, txt, ci))

\* lines 170-192: the mapping, the counts and the index after the keyword loop
keyword_phase(tgts, txt, ci) ==
    keyword_loop([m |-> <<>>, occ |-> <<>>, idx |-> 0], tgts, 1, txt, ci)

\* sorted(S) for a set S of strings
RECURSIVE sorted_set(_)
sorted_set(S) ==
    IF S = {} THEN <<>>
    ELSE LET least == CHOOSE x \in S : \A y \in S \ {x} : StrLess(x, y)
         IN  Call(S \ {least}, LAMBDA rest : <<least>> \o sorted_set(rest))

\* lines 199-203 from position i of unique_numbers
RECURSIVE numeric_loop(_, _, _, _)
numeric_loop(st, unique_numbers, i, number_matches) ==
    IF i > Len(unique_numbers) THEN st
    ELSE LET number == unique_numbers[i]
             cnt    == Cardinality({j \in 1..Len(number_matches) :
                                        number_matches[j][1] = number})
         IN  Call([m   |-> Put(st.m, number, generate_pseudonym(i - 1, NUM_)),
                   occ |-> Put(st.occ, number, cnt),
                   idx |-> st.idx],
                  LAMBDA st1 : numeric_loop(st1, unique_numbers, i + 1, number_matches))

\* lines 195-203
numeric_phase(st, txt) ==
    Call(extract_all_numbers(txt), LAMBDA number_matches :
        Call(sorted_set({number_matches[j][1] : j \in 1..Len(number_matches)}),
             LAMBDA unique_numbers : numeric_loop(st, unique_numbers, 1, number_matches)))

\* returns [m |-> mapping, occ |-> occurrences, idx |-> final keyword index]
create_anonymization_mapping(tgts, txt, ci, nums) ==
    Call(keyword_phase(tgts, txt, ci),
         LAMBDA st : IF nums THEN numeric_phase(st, txt) ELSE st)

(***************************************************************************)
(* anonymize_text                                                          *)
(***************************************************************************)
placeholder_prefix == <<"§", "§", "§", "T", "I", "M", "E">>

placeholder_suffix == <<"P", "R", "O", "T", "E", "C", "T", "E", "D", "§", "§", "§">>

\* the token time_replacer returns for the idx-th match (lines 235-236, 256-257)
placeholder(idx) ==
    LET alpha_idx == IF idx < 26 THEN <<chr65(idx)>> ELSE <<"X">> \o str(idx)
    IN  placeholder_prefix \o alpha_idx \o placeholder_suffix

\* time_pattern.sub(time_replacer, text) from offset i, idx matches seen so far
RECURSIVE protect_from(_, _, _)
protect_from(s, i, idx) ==
    IF i >= Len(s) THEN <<>>
    ELSE LET e == time_match_end(s, i)
         IN  IF e >= 0 THEN placeholder(idx) \o protect_from(s, e, idx + 1)
             ELSE <<s[i + 1]>> \o protect_from(s, i + 1, idx)

\* phase 1: [result, time_matches]
protect_times(s) ==
    Call(time_finditer(s), LAMBDA ms :
        [result       |-> protect_from(s, 0, 0),
         time_matches |-> [k \in 1..Len(ms) |-> Slice(s, ms[k][1], ms[k][2])]])

\* sorted(keys, key=len, reverse=True): stable, so equal lengths keep dict order
RECURSIVE insert_by_len(_, _)
insert_by_len(sorted, key) ==
    IF sorted = <<>> THEN <<key>>
    ELSE IF Len(sorted[Len(sorted)]) >= Len(key) THEN Append(sorted, key)
    ELSE Append(insert_by_len(SubSeq(sorted, 1, Len(sorted) - 1), key),
                sorted[Len(sorted)])

RECURSIVE sort_keys_from(_, _, _)
sort_keys_from(ks, i, acc) ==
    IF i > Len(ks) THEN acc
    ELSE Call(insert_by_len(acc, ks[i]), LAMBDA acc1 : sort_keys_from(ks, i + 1, acc1))

\* the keys in dict order, the sort of line 241 left out
sort_keys_unsorted(m) == Keys(m)

sort_keys(m) == Call(Keys(m), LAMBDA ks : sort_keys_from(ks, 1, <<>>))

\* the substitution with the IGNORECASE flag of line 248 left out
substitute_key_case_sensitive(work, original, m, ci) ==
    replace(work, original, Get(m, original), FALSE)

\* one iteration of the loop of lines 243-252
substitute_key(work, original, m, ci) == replace(work, original, Get(m, original), ci)

RECURSIVE substitute_from(_, _, _, _, _)
substitute_from(work, ks, i, m, ci) ==
    IF i > Len(ks) THEN work
    ELSE Call(substitute_key(work, ks[i], m, ci),
              LAMBDA work1 : substitute_from(work1, ks, i + 1, m, ci))

\* phase 3, from the idx-th recorded time (0-based)
RECURSIVE restore_from(_, _, _)
restore_from(work, tms, idx) ==
    IF idx >= Len(tms) THEN work
    ELSE Call(replace(work, placeholder(idx), tms[idx + 1], FALSE),
              LAMBDA work1 : restore_from(work1, tms, idx + 1))

restore_times(work, tms) == restore_from(work, tms, 0)

anonymize_text(s, m, ci) ==
    Call(protect_times(s), LAMBDA p :
        Call(sort_keys(m), LAMBDA sorted_keys_ :
            Call(substitute_from(p.result, sorted_keys_, 1, m, ci),
                 LAMBDA work : restore_times(work, p.time_matches))))

(***************************************************************************)
(* write_mapping_csv and the accumulation of main()                        *)
(***************************************************************************)
startswith(s, pre) == Len(s) >= Len(pre) /\ SubSeq(s, 1, Len(pre)) = pre

\* rows.sort(key=anonymized): stable insertion of one row
RECURSIVE insert_row(_, _)
insert_row(rows, row) ==
    IF rows = <<>> THEN <<row>>
    ELSE IF ~StrLess(row.anonymized, rows[Len(rows)].anonymized) THEN Append(rows, row)
    ELSE Append(insert_row(SubSeq(rows, 1, Len(rows) - 1), row), rows[Len(rows)])

RECURSIVE sort_rows_from(_, _, _)
sort_rows_from(rows, i, acc) ==
    IF i > Len(rows) THEN acc
    ELSE Call(insert_row(acc, rows[i]), LAMBDA acc1 : sort_rows_from(rows, i + 1, acc1))

\* the rows write_mapping_csv writes, in file order
write_mapping_csv(m, occ) ==
    Call([i \in 1..Len(m) |->
             [original    |-> m[i].k,
              anonymized  |-> m[i].v,
              type        |-> IF startswith(m[i].v, NUM_) THEN "numeric" ELSE "keyword",
              occurrences |-> IF Has(occ, m[i].k) THEN Get(occ, m[i].k) ELSE 0]],
         LAMBDA rows : sort_rows_from(rows, 1, <<>>))

\* lines 412-417 for the entries i.. of the per-file mapping; g = [m, occ]
RECURSIVE accumulate_from(_, _, _, _)
accumulate_from(g, m, occ, i) ==
    IF i > Len(m) THEN g
    ELSE LET key == m[i].k
             g1  == IF ~Has(g.m, key)
                    THEN [m   |-> Put(g.m, key, m[i].v),
                          occ |-> Put(g.occ, key, Get(occ, key))]
                    ELSE [m   |-> g.m,
                          occ |-> Put(g.occ, key, Get(g.occ, key) + Get(occ, key))]
         IN  Call(g1, LAMBDA g2 : accumulate_from(g2, m, occ, i + 1))

\* the accumulation with the test of line 413 left out: every entry assigned
RECURSIVE overwrite_from(_, _, _, _)
overwrite_from(g, m, occ, i) ==
    IF i > Len(m) THEN g
    ELSE LET key == m[i].k
             g1  == [m   |-> Put(g.m, key, m[i].v),
                     occ |-> Put(g.occ, key,
                                 (IF Has(g.occ, key) THEN Get(g.occ, key) ELSE 0)
                                 + Get(occ, key))]
         IN  Call(g1, LAMBDA g2 : overwrite_from(g2, m, occ, i + 1))

accumulate_overwrite(gm, gocc, m, occ) == overwrite_from([m |-> gm, occ |-> gocc], m, occ, 1)

accumulate(gm, gocc, m, occ) == accumulate_from([m |-> gm, occ |-> gocc], m, occ, 1)

\* list(dict.fromkeys(targets)): first occurrences, in order
RECURSIVE fromkeys_from(_, _, _)
fromkeys_from(ts, i, acc) ==
    IF i > Len(ts) THEN acc
    ELSE Call(IF \E j \in 1..Len(acc) : acc[j] = ts[i] THEN acc ELSE Append(acc, ts[i]),
              LAMBDA acc1 : fromkeys_from(ts, i + 1, acc1))

dedupe_targets(ts) == fromkeys_from(ts, 1, <<>>)

(***************************************************************************)
(* Bounds and input sets                                                   *)
(***************************************************************************)
MaxIndex == 703

MaxExtractLen == 6

MaxAnonLen == 4

MaxAnonKeys == 2

MaxBuildLen == 4

MaxTargets == 2

MaxFiles == 2

MaxFileLen == 2

\* all strings over alphabet A of length at most n
AllStrings(A, n) == UNION {[1..k -> A] : k \in 0..n}

\* all dicts of at most n entries with keys in K and values in V
AllDicts(K, V, n) ==
    UNION {{m \in [1..k -> [k : K, v : V]] :
               \A i, j \in 1..k : i # j => m[i].k # m[j].k} : k \in 0..n}

ExtractAlphabet == {"1", "2", ":", ",", ".", "a"}

MeetText == <<"M","e","e","t"," ","a","t"," ","9",":","3","0"," ","a","n","d"," ",
              "b","r","i","n","g"," ","9","3","0","1">>

ExtractTexts ==
    AllStrings(ExtractAlphabet, MaxExtractLen)
    \cup {MeetText, <<"1", "2", ":", "3", "0">>,
          <<"1", ",", "2", "3", "4", ".", "5", "6">>, <<"v", "2">>,
          <<"2", " ", "1", "1", "1", ":", "1", "1", " ", "2">>}

AnonAlphabet == {"a", "b", "1", ":"}

AnonKeys == {<<"a">>, <<"a", "b">>, <<"1">>}

AnonPseudonyms == {<<"A">>, <<"B">>}

AnonTexts == AllStrings(AnonAlphabet, MaxAnonLen)

\* the same texts after a literal placeholder token
TokenTexts == {placeholder(0) \o t : t \in AnonTexts}

JohnLeft == <<"J", "o", "h", "n", " ", "l", "e", "f", "t">>

JoJohn == <<[k |-> <<"J", "o">>, v |-> <<"A">>],
            [k |-> <<"J", "o", "h", "n">>, v |-> <<"B">>]>>

(***************************************************************************)
(* Initial values of the variables an entry point does not use             *)
(***************************************************************************)
GenIdle == index = 0 /\ labels = <<>>

ArgsIdle ==
    /\ text = <<>> /\ targets = <<>> /\ case_insensitive = FALSE
    /\ anonymize_numbers = FALSE /\ mapping = <<>> /\ occurrences = <<>>

AnonIdle ==
    /\ sorted_keys = <<>> /\ time_matches = <<>> /\ done_keys = <<>>
    /\ prev = <<>> /\ result = <<>>

MainIdle ==
    /\ txt_files = <<>> /\ file_idx = 0 /\ global_mapping = <<>>
    /\ global_occurrences = <<>> /\ file_log = <<>> /\ csv_rows = <<>>

genVars == <<index, labels>>

argVars == <<text, targets, case_insensitive, anonymize_numbers, mapping, occurrences>>

anonVars == <<sorted_keys, time_matches, done_keys, prev, result>>

mainVars == <<txt_files, file_idx, global_mapping, global_occurrences, file_log, csv_rows>>

(***************************************************************************)
(* generate_pseudonym called for index 0, 1, 2, ...                        *)
(***************************************************************************)
InitGen ==
    /\ mode = "gen" /\ pc = "call"
    /\ GenIdle /\ ArgsIdle /\ AnonIdle /\ MainIdle /\ numbers = <<>>

Generate ==
    /\ mode = "gen" /\ index < MaxIndex
    /\ labels' = Append(labels, generate_pseudonym(index, <<>>))
    /\ index' = index + 1
    /\ UNCHANGED <<mode, pc, numbers, argVars, anonVars, mainVars>>

SpecGen == InitGen /\ [][Generate]_vars

(***************************************************************************)
(* extract_all_numbers called on one text                                  *)
(***************************************************************************)
InitExtract ==
    /\ mode = "extract" /\ pc = "call"
    /\ text \in ExtractTexts
    /\ targets = <<>> /\ case_insensitive = FALSE /\ anonymize_numbers = FALSE
    /\ mapping = <<>> /\ occurrences = <<>>
    /\ GenIdle /\ AnonIdle /\ MainIdle /\ numbers = <<>>

Extract ==
    /\ mode = "extract" /\ pc = "call"
    /\ numbers' = extract_all_numbers(text)
    /\ pc' = "done"
    /\ UNCHANGED <<mode, genVars, argVars, anonVars, mainVars>>

SpecExtract == InitExtract /\ [][Extract]_vars

(***************************************************************************)
(* anonymize_text called on one text and one mapping, phase by phase       *)
(***************************************************************************)
InitAnon ==
    /\ mode = "anon" /\ pc = "protect"
    /\ \/ /\ text \in AnonTexts
          /\ mapping \in AllDicts(AnonKeys, AnonPseudonyms, MaxAnonKeys)
          /\ case_insensitive \in BOOLEAN
       \/ /\ text \in TokenTexts
          /\ mapping = <<>>
          /\ case_insensitive \in BOOLEAN
       \/ text = JohnLeft /\ mapping = JoJohn /\ case_insensitive = FALSE
    /\ targets = <<>> /\ anonymize_numbers = FALSE /\ occurrences = <<>>
    /\ GenIdle /\ AnonIdle /\ MainIdle /\ numbers = <<>>

\* lines 225-241: placeholders for the time matches, then the sort of the keys
AnonProtect ==
    /\ mode = "anon" /\ pc = "protect"
    /\ \E p \in {protect_times(text)} :
           /\ result' = p.result
           /\ time_matches' = p.time_matches
    /\ sorted_keys' = sort_keys(mapping)
    /\ prev' = text
    /\ pc' = "substitute"
    /\ UNCHANGED <<mode, numbers, done_keys, genVars, argVars, mainVars>>

\* lines 243-252: one iteration of the substitution loop
AnonSubstitute ==
    /\ mode = "anon" /\ pc = "substitute"
    /\ Len(done_keys) < Len(sorted_keys)
    /\ LET original == sorted_keys[Len(done_keys) + 1]
       IN  /\ result' = substitute_key(result, original, mapping, case_insensitive)
           /\ done_keys' = Append(done_keys, original)
    /\ prev' = result
    /\ UNCHANGED <<mode, pc, numbers, sorted_keys, time_matches, genVars, argVars, mainVars>>

\* lines 254-260: the placeholders restored, the text returned
AnonRestore ==
    /\ mode = "anon" /\ pc = "substitute"
    /\ Len(done_keys) = Len(sorted_keys)
    /\ result' = restore_times(result, time_matches)
    /\ prev' = result
    /\ pc' = "done"
    /\ UNCHANGED <<mode, numbers, sorted_keys, time_matches, done_keys,
                   genVars, argVars, mainVars>>

NextAnon == AnonProtect \/ AnonSubstitute \/ AnonRestore

SpecAnon == InitAnon /\ [][NextAnon]_vars

(***************************************************************************)
(* create_anonymization_mapping, then anonymize_text with its mapping      *)
(***************************************************************************)
BuildAlphabet == {"a", "b", "1", ":"}

BuildTargets == {<<"a">>, <<"b">>, <<"a", "b">>, <<"1">>}

\* target lists of case variants and duplicates over short texts
CaseTargets == {<<"a">>, <<"A">>, <<"b">>}

CaseAlphabet == {"a", "A", "B"}

InitBuild ==
    /\ mode = "build" /\ pc = "build"
    /\ \/ /\ text \in AllStrings(BuildAlphabet, MaxBuildLen)
          /\ targets \in AllStrings(BuildTargets, MaxTargets)
          /\ anonymize_numbers \in BOOLEAN
       \/ /\ text \in AllStrings(CaseAlphabet, MaxTargets)
          /\ targets \in AllStrings(CaseTargets, MaxTargets + 1)
          /\ anonymize_numbers = FALSE
    /\ case_insensitive \in BOOLEAN
    /\ mapping = <<>> /\ occurrences = <<>>
    /\ GenIdle /\ AnonIdle /\ MainIdle /\ numbers = <<>>

\* lines 170-192: the keyword loop; index keeps the loop's final index
BuildKeywords ==
    /\ mode = "build" /\ pc = "build"
    /\ \E st \in {keyword_phase(targets, text, case_insensitive)} :
           /\ mapping' = st.m
           /\ occurrences' = st.occ
           /\ index' = st.idx
    /\ pc' = "numeric"
    /\ UNCHANGED <<mode, numbers, labels, text, targets, case_insensitive,
                   anonymize_numbers, anonVars, mainVars>>

\* lines 194-205: the numeric phase and the return
BuildNumbers ==
    /\ mode = "build" /\ pc = "numeric"
    /\ \E st \in {IF anonymize_numbers
                    THEN numeric_phase([m |-> mapping, occ |-> occurrences, idx |-> index], text)
                    ELSE [m |-> mapping, occ |-> occurrences, idx |-> index]} :
           /\ mapping' = st.m
           /\ occurrences' = st.occ
    /\ numbers' = IF anonymize_numbers THEN extract_all_numbers(text) ELSE <<>>
    /\ pc' = "built"
    /\ UNCHANGED <<mode, genVars, text, targets, case_insensitive,
                   anonymize_numbers, anonVars, mainVars>>

\* anonymize_text(text, mapping, case_insensitive) as one call
BuildAnonymize ==
    /\ mode = "build" /\ pc = "built"
    /\ result' = anonymize_text(text, mapping, case_insensitive)
    /\ sorted_keys' = sort_keys(mapping)
    /\ pc' = "done"
    /\ UNCHANGED <<mode, numbers, genVars, argVars, time_matches, done_keys, prev, mainVars>>

NextBuild == BuildKeywords \/ BuildNumbers \/ BuildAnonymize

SpecBuild == InitBuild /\ [][NextBuild]_vars

(***************************************************************************)
(* main(): the prompts, the loop over the files, the CSV export            *)
(***************************************************************************)
FileAlphabet == {"a", "b", "1"}

FileTexts == AllStrings(FileAlphabet, MaxFileLen)

\* what the user types at the second prompt, split at the commas and stripped
RawTargetLists ==
    {<<>>, <<<<"a">>>>, <<<<"a">>, <<"b">>>>, <<<<"b">>, <<"a">>>>,
     <<<<"a">>, <<"a">>, <<"b">>>>, <<<<"a">>, <<"a", "b">>>>}

InitMain ==
    /\ mode = "main" /\ pc = "prompt"
    /\ txt_files \in AllStrings(FileTexts, MaxFiles)
    /\ targets \in RawTargetLists
    /\ anonymize_numbers \in BOOLEAN
    /\ case_insensitive = TRUE
    /\ text = <<>> /\ mapping = <<>> /\ occurrences = <<>>
    /\ file_idx = 0 /\ global_mapping = <<>> /\ global_occurrences = <<>>
    /\ file_log = <<>> /\ csv_rows = <<>>
    /\ GenIdle /\ AnonIdle /\ numbers = <<>>

\* lines 322-395: the early returns and the deduplication of the targets
MainPrompt ==
    /\ mode = "main" /\ pc = "prompt"
    /\ targets' = dedupe_targets(targets)
    /\ pc' = IF txt_files = <<>> \/ (targets = <<>> /\ ~anonymize_numbers)
             THEN "returned" ELSE "loop"
    /\ UNCHANGED <<mode, numbers, genVars, text, case_insensitive, anonymize_numbers,
                   mapping, occurrences, anonVars, mainVars>>

\* lines 397-447: one iteration of the loop over txt_files.  The read and the
\* write may raise; the except clause reports and the loop goes on.
ProcessFile ==
    /\ mode = "main" /\ pc = "loop"
    /\ file_idx < Len(txt_files)
    /\ file_idx' = file_idx + 1
    /\ \E read_ok, write_ok \in BOOLEAN :
        \E original_text \in {txt_files[file_idx + 1]} :
        \E st \in {create_anonymization_mapping(targets, original_text,
                                                case_insensitive, anonymize_numbers)} :
        \E g \in {accumulate(global_mapping, global_occurrences, st.m, st.occ)} :
        \E out \in {anonymize_text(original_text, st.m, case_insensitive)} :
              IF ~read_ok
              THEN /\ write_ok
                   /\ file_log' = Append(file_log, [status |-> "read_error",
                                                    mapping |-> <<>>, occurrences |-> <<>>,
                                                    out |-> <<>>])
                   /\ UNCHANGED <<text, mapping, occurrences, result,
                                  global_mapping, global_occurrences>>
              ELSE /\ text' = original_text
                   /\ mapping' = st.m
                   /\ occurrences' = st.occ
                   /\ global_mapping' = g.m
                   /\ global_occurrences' = g.occ
                   /\ IF st.m = <<>>
                      THEN /\ write_ok
                           /\ UNCHANGED result
                           /\ file_log' = Append(file_log,
                                  [status |-> "skipped", mapping |-> st.m,
                                   occurrences |-> st.occ, out |-> <<>>])
                      ELSE /\ result' = out
                           /\ file_log' = Append(file_log,
                                  [status |-> IF write_ok THEN "written" ELSE "write_error",
                                   mapping |-> st.m, occurrences |-> st.occ,
                                   out |-> IF write_ok THEN out ELSE <<>>])
    /\ UNCHANGED <<mode, pc, numbers, genVars, targets, case_insensitive,
                   anonymize_numbers, sorted_keys, time_matches, done_keys, prev,
                   txt_files, csv_rows>>

\* lines 452-458: the accumulated mapping exported once the loop has ended
ExportCsv ==
    /\ mode = "main" /\ pc = "loop"
    /\ file_idx = Len(txt_files)
    /\ csv_rows' = IF global_mapping # <<>>
                   THEN write_mapping_csv(global_mapping, global_occurrences)
                   ELSE <<>>
    /\ pc' = "done"
    /\ UNCHANGED <<mode, numbers, genVars, argVars, anonVars, txt_files, file_idx,
                   global_mapping, global_occurrences, file_log>>

Next == MainPrompt \/ ProcessFile \/ ExportCsv

Spec == InitMain /\ [][Next]_vars

(***************************************************************************)
(* Properties of generate_pseudonym (checked under SpecGen)                *)
(***************************************************************************)
\* the value of a label read as a bijective base-26 numeral, digits A=1 .. Z=26
RECURSIVE BijectiveValue(_)
BijectiveValue(label) ==
    IF label = <<>> THEN 0
    ELSE 26 * BijectiveValue(SubSeq(label, 1, Len(label) - 1))
         + (CHOOSE d \in 1..26 : UpperAZ[d] = label[Len(label)])

LabelOf(i) == labels[i + 1]

Generated(i) == i < Len(labels)

\* C6: with an empty prefix generate_pseudonym is the bijective base-26
\* numbering over A-Z: the label of index i is a non-empty word over A-Z whose
\* bijective base-26 value is i + 1, so the labels of 0..N-1 are pairwise
\* distinct; 0->A, 25->Z, 26->AA, 51->AZ, 52->BA, 701->ZZ, 702->AAA; and the
\* label length never decreases as the index grows.
C6_BijectiveBase26 ==
    /\ \A i \in 0..(Len(labels) - 1) :
          /\ LabelOf(i) # <<>>
          /\ Range(LabelOf(i)) \subseteq UpperSet
          /\ BijectiveValue(LabelOf(i)) = i + 1
          /\ i > 0 => Len(LabelOf(i - 1)) <= Len(LabelOf(i))
    /\ Cardinality(Range(labels)) = Len(labels)
    /\ Generated(0) => LabelOf(0) = <<"A">>
    /\ Generated(25) => LabelOf(25) = <<"Z">>
    /\ Generated(26) => LabelOf(26) = <<"A", "A">>
    /\ Generated(51) => LabelOf(51) = <<"A", "Z">>
    /\ Generated(52) => LabelOf(52) = <<"B", "A">>
    /\ Generated(701) => LabelOf(701) = <<"Z", "Z">>
    /\ Generated(702) => LabelOf(702) = <<"A", "A", "A">>

\* the labels of 0..702 have all been generated, three lengths among them
C6_Witness ==
    /\ Generated(702)
    /\ Len(LabelOf(25)) = 1 /\ Len(LabelOf(26)) = 2
    /\ Len(LabelOf(701)) = 2 /\ Len(LabelOf(702)) = 3

(***************************************************************************)
(* Properties of extract_all_numbers (checked under SpecExtract)           *)
(***************************************************************************)
\* offset i of s lies inside a match of the time pattern
InTimeMatch(s, i) ==
    \E a \in 0..i : \E k \in 1..Len(time_finditer(s)) :
        /\ time_finditer(s)[k][1] = a
        /\ i < time_finditer(s)[k][2]

\* the number match <<a, b>> of s touches no time match
ClearOfTime(s, m) == \A i \in m[1]..(m[2] - 1) : ~InTimeMatch(s, i)

\* C9: extract_all_numbers never returns a literal whose range [start, end)
\* intersects a match of the time pattern, and returns the remaining matches
\* of the number pattern in increasing start offset, repeated literals kept:
\* "12:30" yields nothing, "Meet at 9:30 and bring 9301" yields ("9301", 23, 27).
C9_TimeExclusion ==
    pc = "done" =>
      /\ \A k \in 1..Len(numbers) :
            /\ 0 <= numbers[k][2] /\ numbers[k][2] < numbers[k][3]
            /\ numbers[k][3] <= Len(text)
            /\ numbers[k][1] = Slice(text, numbers[k][2], numbers[k][3])
            /\ ClearOfTime(text, <<numbers[k][2], numbers[k][3]>>)
            /\ k > 1 => numbers[k - 1][3] <= numbers[k][2]
      /\ \A j \in 1..Len(number_finditer(text)) :
            ClearOfTime(text, number_finditer(text)[j]) =>
               \E k \in 1..Len(numbers) :
                  /\ numbers[k][2] = number_finditer(text)[j][1]
                  /\ numbers[k][3] = number_finditer(text)[j][2]
      /\ text = <<"1", "2", ":", "3", "0">> => numbers = <<>>
      /\ text = MeetText => numbers = <<<<<<"9", "3", "0", "1">>, 23, 27>>>>

\* a text where a number match that starts before a time match and runs into
\* it was dropped, and a repeated literal was returned twice
C9_Witness ==
    /\ pc = "done"
    /\ \E j \in 1..Len(number_finditer(text)) :
          /\ ~InTimeMatch(text, number_finditer(text)[j][1])
          /\ ~ClearOfTime(text, number_finditer(text)[j])
    /\ \E k \in 1..Len(numbers) : \E l \in 1..Len(numbers) :
          k # l /\ numbers[k][1] = numbers[l][1]

(***************************************************************************)
(* Properties of anonymize_text (checked under SpecAnon)                   *)
(***************************************************************************)
\* the matched strings of the time pattern in s, in order
TimeStrings(s) ==
    [k \in 1..Len(time_finditer(s)) |->
        Slice(s, time_finditer(s)[k][1], time_finditer(s)[k][2])]

\* the strings tms[k..] occur in out from offset from on, in order, disjoint
RECURSIVE OccurInOrder(_, _, _, _)
OccurInOrder(out, tms, k, from) ==
    IF k > Len(tms) THEN TRUE
    ELSE LET at == {i \in from..(Len(out) - Len(tms[k])) : MatchAt(out, i, tms[k], FALSE)}
         IN  /\ at # {}
             /\ OccurInOrder(out, tms, k + 1,
                             (CHOOSE i \in at : \A j \in at : i <= j) + Len(tms[k]))

\* C1: whatever the mapping, every match of the time pattern in the input is
\* in the returned text, unchanged and in its order, and no placeholder token
\* is left behind.
C1_TimeSpansKept ==
    (mode = "anon" /\ pc = "done") =>
      /\ OccurInOrder(result, TimeStrings(text), 1, 0)
      /\ "§" \notin Range(text) => "§" \notin Range(result)

\* the substring test of the case mode
OccursIn(s, x, ci) == \E i \in 0..(Len(s) - Len(x)) : MatchAt(s, i, x, ci)

\* offset of the leftmost match of x in s (there is one)
Leftmost(s, x, ci) ==
    CHOOSE i \in 0..(Len(s) - Len(x)) :
        MatchAt(s, i, x, ci) /\ \A j \in 0..(i - 1) : ~MatchAt(s, j, x, ci)

C7_EmptyMappingIdentity ==
    (mode = "anon" /\ pc = "done" /\ mapping = <<>>) => result = text

(***************************************************************************)
(* Properties of create_anonymization_mapping followed by anonymize_text   *)
(* (checked under SpecBuild)                                               *)
(***************************************************************************)
\* C4: after the keyword loop the entries of the mapping carry the labels
\* generate(0), ..., generate(k-1), k the number of entries, without a gap and
\* in order of first occurrence: the i-th entry has the label of index i - 1.
C4_KeywordLabelsSequential ==
    (mode = "build" /\ pc = "numeric") =>
      \A i \in 1..Len(mapping) : mapping[i].v = generate_pseudonym(i - 1, <<>>)

\* C3 as stated: the pseudonym of every entry of the mapping is a substring of
\* the anonymized output.
C3_EveryPseudonymInOutput ==
    (mode = "build" /\ pc = "done") =>
      \A i \in 1..Len(mapping) : OccursIn(result, mapping[i].v, FALSE)

Fold(c) == IF case_insensitive THEN LowerChar(c) ELSE c

\* no key of the mapping shares a character with a pseudonym of the mapping
\* (characters compared as the case mode compares them)
KeysClearOfPseudonyms ==
    \A i, j \in 1..Len(mapping) :
        {Fold(c) : c \in Range(mapping[i].k)} \cap {Fold(c) : c \in Range(mapping[j].v)} = {}

\* offsets where key x matches the text
Occurrences(x) == {i \in 0..(Len(text) - Len(x)) : MatchAt(text, i, x, case_insensitive)}

\* the i-th key has an occurrence in the text that overlaps no occurrence of
\* another key
HasFreeOccurrence(i) ==
    \E a \in Occurrences(mapping[i].k) :
        \A j \in 1..Len(mapping) : j # i =>
            \A b \in Occurrences(mapping[j].k) :
                \/ b + Len(mapping[j].k) <= a
                \/ a + Len(mapping[i].k) <= b

\* C3 amended: when the text holds no time pattern and no key shares a
\* character with a pseudonym, every key with an occurrence in the text that
\* overlaps no occurrence of another key has its pseudonym in the output.
C3_FreeKeysPseudonymInOutput ==
    (/\ mode = "build" /\ pc = "done"
     /\ time_finditer(text) = <<>>
     /\ KeysClearOfPseudonyms) =>
      \A i \in 1..Len(mapping) :
          HasFreeOccurrence(i) => OccursIn(result, mapping[i].v, FALSE)

\* a case-insensitive run with a keyword and a number, both free, the keyword
\* written in the text in the other case
C3_Witness ==
    /\ mode = "build" /\ pc = "done"
    /\ case_insensitive
    /\ time_finditer(text) = <<>>
    /\ KeysClearOfPseudonyms
    /\ Len(mapping) >= 1
    /\ \A i \in 1..Len(mapping) : HasFreeOccurrence(i)
    /\ ~OccursIn(text, mapping[1].k, FALSE)
    /\ OccursIn(result, mapping[1].v, FALSE)

(***************************************************************************)
(* Properties of the batch loop of main() (checked under Spec)             *)
(***************************************************************************)
\* C2: the accumulated mapping never holds two keys with the same pseudonym.
C2_GlobalPseudonymsUnique ==
    \A i, j \in 1..Len(global_mapping) :
        i # j => global_mapping[i].v # global_mapping[j].v

\* sum of the per-file counts of key over the files f.. of the log
RECURSIVE SumOverFiles(_, _)
SumOverFiles(key, f) ==
    IF f > Len(file_log) THEN 0
    ELSE (IF Has(file_log[f].mapping, key) THEN Get(file_log[f].occurrences, key) ELSE 0)
         + SumOverFiles(key, f + 1)

\* every entry recorded so far is still there, at its place, with its pseudonym
EntriesKept ==
    /\ Len(global_mapping') >= Len(global_mapping)
    /\ \A i \in 1..Len(global_mapping) : global_mapping'[i] = global_mapping[i]

\* the accumulated counts are the sums of the per-file counts, over every
\* file whose mapping was built, the ones whose write failed included
CountsAreSums ==
    /\ Range(Keys(global_occurrences)) = Range(Keys(global_mapping))
    /\ Range(Keys(global_mapping)) =
           UNION {Range(Keys(file_log[f].mapping)) : f \in 1..Len(file_log)}
    /\ \A i \in 1..Len(global_mapping) :
          Get(global_occurrences, global_mapping[i].k)
              = SumOverFiles(global_mapping[i].k, 1)

\* C8: the accumulated mapping is append-only (a recorded pseudonym never
\* changes while later files are processed) and the accumulated count of a key
\* is the sum of its per-file counts over the files whose mapping holds it.
C8_AppendOnlyAndCountsSum == [][EntriesKept]_vars /\ []CountsAreSums

\* the batch is over; a key was counted in two files, one of them a file
\* whose write failed, and both counts are in its total
C8_Witness ==
    /\ mode = "main" /\ pc = "done"
    /\ Len(file_log) = 2
    /\ file_log[1].status = "written"
    /\ file_log[2].status = "write_error"
    /\ \E i \in 1..Len(global_mapping) :
          /\ Has(file_log[1].mapping, global_mapping[i].k)
          /\ Has(file_log[2].mapping, global_mapping[i].k)
          /\ Get(file_log[2].occurrences, global_mapping[i].k) = 2
          /\ Get(global_occurrences, global_mapping[i].k) = 3

\* C10: once the CSV is exported, each file that got an anonymized output
\* finds every entry of its own mapping, key and pseudonym, among the rows.
C10_ExportAgreesWithFiles ==
    (mode = "main" /\ pc = "done") =>
      \A f \in 1..Len(file_log) :
          file_log[f].status = "written" =>
            \A i \in 1..Len(file_log[f].mapping) :
                \E r \in 1..Len(csv_rows) :
                    /\ csv_rows[r].original = file_log[f].mapping[i].k
                    /\ csv_rows[r].anonymized = file_log[f].mapping[i].v

====
